---------------------------- MODULE Spec2Model ----------------------------
(***************************************************************************)
(* babylonify: filter the rows of a Parquet table by the detected language *)
(* of a text column, with optional cleaning of the text (src/src/main.rs). *)
(*                                                                         *)
(* A String is a sequence of one-character strings.  An Option<T> is a     *)
(* sequence of length at most one: <<>> is None and <<v>> is Some(v).      *)
(***************************************************************************)
EXTENDS Integers, Sequences, FiniteSets, TLC

None == <<>>
Some(v) == <<v>>

(***************************************************************************)
(* Character classes used by the two regexes and the replace calls of      *)
(* clean_text.  "a" and "b" stand for letters (\p{L}), "," and "!" for     *)
(* punctuation that is kept, "@" and "(" for punctuation that the explicit *)
(* list strips, "1" and "$" for digits and symbols (neither \p{L} nor      *)
(* \p{P}), and " ", "\t", "\n" are whitespace (\s).                        *)
(***************************************************************************)
IsLetter(c) == c \in {"a", "b"}

IsPunctuation(c) == c \in {",", "!", "@", "#", "%", "&", "*", "(", ")"}

IsWhitespace(c) == c \in {" ", "\t", "\n"}

StrippedSymbols == {"@", "#", "%", "&", "*", "(", ")"}

RECURSIVE SkipWhitespace(_)
SkipWhitespace(s) ==
    IF s # <<>> /\ IsWhitespace(Head(s)) THEN SkipWhitespace(Tail(s)) ELSE s

\* WHITESPACE.replace_all(text, " "): every maximal run of \s becomes one space.
RECURSIVE CollapseWhitespace(_)
CollapseWhitespace(s) ==
    IF s = <<>> THEN <<>>
    ELSE IF IsWhitespace(Head(s))
         THEN <<" ">> \o CollapseWhitespace(SkipWhitespace(s))
         ELSE <<Head(s)>> \o CollapseWhitespace(Tail(s))

\* DROP_NON_L_P_SPACE.replace_all(&spaced, ""): [^ \p{L}\p{P}] is deleted.
DropNonLPSpace(s) ==
    SelectSeq(s, LAMBDA c : c = " " \/ IsLetter(c) \/ IsPunctuation(c))

\* cleaned.replace("\t", " ")
ReplaceTabs(s) == [i \in 1..Len(s) |-> IF s[i] = "\t" THEN " " ELSE s[i]]

\* cleaned.replace(&['@', '#', '%', '&', '*', '(', ')'][..], "")
StripSymbols(s) == SelectSeq(s, LAMBDA c : c \notin StrippedSymbols)

\* cleaned.replace("  ", " "): one left-to-right pass over non-overlapping
\* matches; the replacement is not scanned again.
RECURSIVE ReplaceDoubleSpace(_)
ReplaceDoubleSpace(s) ==
    IF Len(s) < 2 THEN s
    ELSE IF s[1] = " " /\ s[2] = " "
         THEN <<" ">> \o ReplaceDoubleSpace(SubSeq(s, 3, Len(s)))
         ELSE <<Head(s)>> \o ReplaceDoubleSpace(Tail(s))

RECURSIVE TrimEnd(_)
TrimEnd(s) ==
    IF s # <<>> /\ IsWhitespace(s[Len(s)])
    THEN TrimEnd(SubSeq(s, 1, Len(s) - 1))
    ELSE s

\* A trim that takes one space off each end.
TrimOne(s) ==
    LET t == IF s # <<>> /\ s[1] = " " THEN Tail(s) ELSE s
    IN  IF t # <<>> /\ t[Len(t)] = " " THEN SubSeq(t, 1, Len(t) - 1) ELSE t

\* str::trim
Trim(s) == TrimEnd(SkipWhitespace(s))

clean_text(text) ==
    Trim(ReplaceDoubleSpace(StripSymbols(ReplaceTabs(
        DropNonLPSpace(CollapseWhitespace(text))))))


(***************************************************************************)
(* Bounds of the model.                                                    *)
(***************************************************************************)
\* Longest input of clean_text that is enumerated.
MaxLen == 7
\* Tallest input table of single-file mode.
MaxRows == 3
\* Largest worker pool.
MaxThreads == 2

\* The characters the inputs of clean_text are built from: one of each class.
Chars == {"a", "@", "1", " ", "\t"}

RECURSIVE StringsUpTo(_)
StringsUpTo(n) ==
    IF n = 0 THEN {<<>>}
    ELSE LET shorter == StringsUpTo(n - 1)
         IN  shorter \cup {Append(s, c) : s \in {t \in shorter : Len(t) = n - 1},
                                          c \in Chars}

(***************************************************************************)
(* Tables.  A DataFrame is a function from column names to columns; the    *)
(* fixture of the tests has an Int32 column "id" and a String column       *)
(* "transcription" whose cells are Option<String>.                         *)
(***************************************************************************)
\* The texts of the cells: the empty string, a text that cleaning empties,
\* and a text that cleaning changes and cleaning again changes once more.
Texts == {<<>>, <<"1">>, <<"a", " ", "1", " ", "1", " ", "b">>}

Cells == {None} \cup {Some(t) : t \in Texts}

DataFrame(ids, texts) ==
    [c \in {"id", "transcription"} |->
        IF c = "id" THEN [dtype |-> "Int32", values |-> ids]
                    ELSE [dtype |-> "String", values |-> texts]]

height(df) == Len(df["id"].values)

EmptyFrame == DataFrame(<<>>, <<>>)

TablesOfHeight(n) ==
    {DataFrame([i \in 1..n |-> i - 1], texts) : texts \in [1..n -> Cells]}

Tables == UNION {TablesOfHeight(n) : n \in 0..MaxRows}

(***************************************************************************)
(* The file system: a function from paths (sequences of components) to     *)
(* nodes.  A file holds either a readable Parquet table or bytes that the  *)
(* Parquet reader rejects.                                                 *)
(***************************************************************************)
Absent == [kind |-> "absent", valid |-> FALSE, df |-> EmptyFrame]
Directory == [kind |-> "dir", valid |-> FALSE, df |-> EmptyFrame]
ParquetFile(df) == [kind |-> "file", valid |-> TRUE, df |-> df]
CorruptFile == [kind |-> "file", valid |-> FALSE, df |-> EmptyFrame]

exists(fs, path) == path \in DOMAIN fs /\ fs[path].kind # "absent"
is_dir(fs, path) == path \in DOMAIN fs /\ fs[path].kind = "dir"
is_file(fs, path) == path \in DOMAIN fs /\ fs[path].kind = "file"

(***************************************************************************)
(* parse_language.  cli.lang is one of a few sample spellings.             *)
(***************************************************************************)
LangInputs == {"UKR", "xx"}

\* code.trim().to_lowercase() on the sample spellings.
TrimLowercase(code) == IF code = "UKR" THEN "ukr" ELSE code

\* Language::all(), by the lowercased Debug name (a few of the languages).
AllLanguages ==
    [ukrainian |-> "Ukrainian", english |-> "English", russian |-> "Russian",
     polish |-> "Polish", german |-> "German", french |-> "French",
     spanish |-> "Spanish", latin |-> "Latin"]

\* Ok(language) is Some(language); Err(..) is None and the caller builds the error.
parse_language(lang) ==
    LET code == TrimLowercase(lang)
    IN  CASE code \in {"uk", "ukr", "ukrainian"} -> Some("Ukrainian")
          [] code \in {"en", "eng", "english"} -> Some("English")
          [] code \in {"ru", "rus", "russian"} -> Some("Russian")
          [] code \in {"pl", "polish"} -> Some("Polish")
          [] code \in {"de", "german"} -> Some("German")
          [] code \in {"fr", "french"} -> Some("French")
          [] code \in {"es", "spanish"} -> Some("Spanish")
          [] OTHER -> IF code \in DOMAIN AllLanguages
                      THEN Some(AllLanguages[code]) ELSE None

(***************************************************************************)
(* Errors.  `names` is what the program's message identifies: the path,    *)
(* column or value formatted into it, or <<>> when the message is the      *)
(* library's error alone.                                                  *)
(***************************************************************************)
Error(kind, names) == [kind |-> kind, names |-> names]

Running == [state |-> "running", error |-> Error("", <<>>)]
Ok == [state |-> "ok", error |-> Error("", <<>>)]
Err(e) == [state |-> "failed", error |-> e]

(***************************************************************************)
(* Paths.  A path is a sequence of components and a component a String.    *)
(***************************************************************************)
Byte(c) ==
    CASE c = "." -> 46
      [] c = "A" -> 65 [] c = "B" -> 66 [] c = "E" -> 69 [] c = "P" -> 80
      [] c = "Q" -> 81 [] c = "R" -> 82 [] c = "T" -> 84 [] c = "U" -> 85
      [] c = "a" -> 97 [] c = "b" -> 98 [] c = "c" -> 99 [] c = "e" -> 101
      [] c = "p" -> 112 [] c = "q" -> 113 [] c = "r" -> 114 [] c = "t" -> 116
      [] c = "u" -> 117 [] c = "x" -> 120

to_ascii_lowercase(c) == 
    CASE c = "A" -> "a" [] c = "B" -> "b" [] c = "E" -> "e" [] c = "P" -> "p"
      [] c = "Q" -> "q" [] c = "R" -> "r" [] c = "T" -> "t" [] c = "U" -> "u"
      [] OTHER -> c

eq_ignore_ascii_case(s, t) ==
    /\ Len(s) = Len(t)
    /\ \A i \in 1..Len(s) : to_ascii_lowercase(s[i]) = to_ascii_lowercase(t[i])

\* Byte-wise lexicographic order of two Strings.
RECURSIVE StrLess(_, _)
StrLess(s, t) ==
    IF t = <<>> THEN FALSE
    ELSE IF s = <<>> THEN TRUE
    ELSE IF Head(s) # Head(t) THEN Byte(Head(s)) < Byte(Head(t))
    ELSE StrLess(Tail(s), Tail(t))

\* Ord for PathBuf: component by component.
RECURSIVE PathLess(_, _)
PathLess(p, q) ==
    IF q = <<>> THEN FALSE
    ELSE IF p = <<>> THEN TRUE
    ELSE IF Head(p) # Head(q) THEN StrLess(Head(p), Head(q))
    ELSE PathLess(Tail(p), Tail(q))

join(dir, name) == Append(dir, name)
file_name(path) == path[Len(path)]
parent(path) == SubSeq(path, 1, Len(path) - 1)

\* Path::extension: the part of the file name after its last dot, unless the
\* name has no dot or its only dot is the first character.
extension(path) ==
    LET name == file_name(path)
        dots == {i \in 1..Len(name) : name[i] = "."}
        last == CHOOSE i \in dots : \A j \in dots : j <= i
    IN  IF dots = {} \/ last = 1 THEN None
        ELSE Some(SubSeq(name, last + 1, Len(name)))

Parquet == <<"p", "a", "r", "q", "u", "e", "t">>

\* The paths read_dir did not sort: some order the directory happens to give.
RECURSIVE ReverseSorted(_)
ReverseSorted(paths) ==
    IF paths = {} THEN <<>>
    ELSE LET max == CHOOSE p \in paths : \A q \in paths : ~PathLess(p, q)
         IN  <<max>> \o ReverseSorted(paths \ {max})

\* files.sort()
RECURSIVE Sorted(_)
Sorted(paths) ==
    IF paths = {} THEN <<>>
    ELSE LET min == CHOOSE p \in paths : \A q \in paths : ~PathLess(q, p)
         IN  <<min>> \o Sorted(paths \ {min})

\* The filter_map closure of process_directory, for an entry that was read.
IsParquetFile(fs, path) ==
    /\ is_file(fs, path)
    /\ extension(path) # None
    /\ eq_ignore_ascii_case(extension(path)[1], Parquet)

(***************************************************************************)
(* The per-row computations of process_file.                               *)
(***************************************************************************)
\* Lines 226-237: clean_text on the present cells when --clean is set.
Processed(col, clean) ==
    [i \in 1..Len(col) |->
        IF col[i] = None THEN None
        ELSE IF clean THEN Some(clean_text(col[i][1])) ELSE col[i]]

\* A closure that also classifies the empty string.
CallsDetectorOnEmpty(opt_text) == opt_text # None

\* The third arm of the match: the only one that calls the detector.
CallsDetector(opt_text) == opt_text # None /\ opt_text[1] # <<>>

\* A closure that keeps a row whose language is undetermined.
DecisionKeepingUndetermined(opt_text, keep_empty, detection, target_lang) ==
    IF opt_text = None THEN keep_empty
    ELSE IF opt_text[1] = <<>> THEN keep_empty
    ELSE detection = Some(target_lang) \/ detection = None

\* Lines 241-245: the closure mapped over the rows.  `detection` is the
\* detector's answer for the text and is read in the third arm only.
Decision(opt_text, keep_empty, detection, target_lang) ==
    IF opt_text = None THEN keep_empty
    ELSE IF opt_text[1] = <<>> THEN keep_empty
    ELSE detection = Some(target_lang)

\* The detector's answers that are told apart: a language or undetermined.
DetectionResults == {None, Some("Ukrainian"), Some("English")}

\* A gather that appends the decisions in the order the workers finish.
GatherInCompletionOrder(slots, i, decision) ==
    LET free == {j \in 1..Len(slots) : slots[j] = None}
        first == CHOOSE j \in free : \A k \in free : j <= k
    IN  [slots EXCEPT ![first] = Some(decision)]

\* collect() of an indexed parallel iterator: the decision of row i is
\* written to slot i of the vector, whichever worker computed it.
Gather(slots, i, decision) == [slots EXCEPT ![i] = Some(decision)]

\* A filter that keeps the rows the mask rejects.
RECURSIVE FilterInverted(_, _)
FilterInverted(values, mask) ==
    IF values = <<>> \/ mask = <<>> THEN <<>>
    ELSE (IF Head(mask) THEN <<>> ELSE <<Head(values)>>)
         \o FilterInverted(Tail(values), Tail(mask))

\* One column under df.filter(&mask): the values whose mask entry is true,
\* in their order.
RECURSIVE FilterColumn(_, _)
FilterColumn(values, mask) ==
    IF values = <<>> \/ mask = <<>> THEN <<>>
    ELSE (IF Head(mask) THEN <<Head(values)>> ELSE <<>>)
         \o FilterColumn(Tail(values), Tail(mask))

\* A filter that leaves the "id" column whole.
FilterTextOnly(frame, mask) ==
    [c \in DOMAIN frame |->
        IF c = "id" THEN frame[c]
        ELSE [frame[c] EXCEPT !.values = FilterColumn(@, mask)]]

\* df.filter(&mask_ch): every column filtered by the same mask.
Filter(frame, mask) ==
    [c \in DOMAIN frame |-> [frame[c] EXCEPT !.values = FilterColumn(@, mask)]]

\* A replacement column that runs clean_text again on the kept values.
CleanedAgain(values, mask) ==
    LET kept == FilterColumn(values, mask)
    IN  [i \in 1..Len(kept) |->
            IF kept[i] = None THEN None ELSE Some(clean_text(kept[i][1]))]

\* Lines 253-257: processed.into_iter().zip(mask.iter()).filter_map(..).
CleanedFiltered(values, mask) == FilterColumn(values, mask)

\* filtered.with_column(Series::new(name, values)): the String series
\* replaces the column of that name; Err (None) on a length mismatch.
with_column(frame, name, series) ==
    IF Len(series) = height(frame)
    THEN Some([c \in DOMAIN frame \cup {name} |->
                 IF c = name THEN [dtype |-> "String", values |-> series]
                 ELSE frame[c]])
    ELSE None

(***************************************************************************)
(* State.                                                                  *)
(***************************************************************************)
VARIABLES
    cli,          \* the parsed command line
    fs,           \* the file system
    pc,           \* where the program is
    result,       \* what main returns
    io,           \* the file operations attempted so far, in order
    discarded,    \* errors that occurred and were dropped by .ok()
    pool,         \* size of the global worker pool
    target_lang,  \* parse_language(&cli.lang)
    files,        \* process_directory: the sorted matches
    cursor,       \* process_directory: how many of them the loop has taken
    input_path,   \* process_file: its arguments
    output_path,
    df,           \* process_file: the table read
    processed,    \* process_file: Vec<Option<String>>
    mask,         \* the vector collect() fills: None until a slot is written
    busy,         \* the rows that workers of the pool are on
    calls,        \* how often the detector was called for each row
    detected,     \* the detector's answers given so far, by text
    text,         \* the input of clean_text
    cleaned       \* the results of applying clean_text once and twice

vars == <<cli, fs, pc, result, io, discarded, pool, target_lang, files, cursor,
          input_path, output_path, df, processed, mask, busy, calls, detected,
          text, cleaned>>

fileVars == <<df, processed, mask, busy, calls>>
cleanVars == <<text, cleaned>>

IoEvent(op, path) == [op |-> op, path |-> path]

\* The pool size when --threads is absent or could not be applied: the
\* host's available parallelism, here a host with one core.
DefaultThreads == 1

(***************************************************************************)
(* Inputs.                                                                 *)
(***************************************************************************)
NameA == <<"a", ".", "p", "a", "r", "q", "u", "e", "t">>
NameB == <<"B", ".", "P", "A", "R", "Q", "U", "E", "T">>
NameC == <<"c", ".", "p", "a", "r", "q", "u", "e", "t">>
NameT == <<"b", ".", "t", "x", "t">>

InFile == <<NameA>>
OutFile == <<NameB>>
InDir == <<<<"i", "n">>>>
OutDir == <<<<"o", "u", "t">>>>

\* The names an input directory may hold.
Names == {NameA, NameB, NameC, NameT}

Columns == {"transcription", "id", "text"}

\* --threads absent, or asking for the largest pool.
ThreadOptions == {None, Some(MaxThreads)}

Clis(input, input_dir, output, threads) ==
    [input : {input}, input_dir : {input_dir}, output : {output},
     column : Columns, lang : LangInputs, threads : threads,
     keep_empty : BOOLEAN, clean : BOOLEAN]

\* The table the readable files of an input directory hold.
DirTable ==
    DataFrame(<<0, 1>>, <<None, Some(<<"a", " ", "1", " ", "1", " ", "b">>)>>)

\* What an input directory may hold under a name: NameT is not a Parquet
\* name, and NameC may also be a directory whose name ends in .parquet.
EntryOptions(n) ==
    IF n = NameT THEN {Absent, CorruptFile}
    ELSE IF n = NameC THEN {Absent, Directory, CorruptFile, ParquetFile(DirTable)}
    ELSE {Absent, CorruptFile, ParquetFile(DirTable)}

Idle ==
    /\ result = Running
    /\ io = <<>>
    /\ discarded = {}
    /\ pool = 0
    /\ target_lang = ""
    /\ files = <<>>
    /\ cursor = 0
    /\ input_path = <<>>
    /\ output_path = <<>>
    /\ df = EmptyFrame
    /\ processed = <<>>
    /\ mask = <<>>
    /\ busy = {}
    /\ calls = <<>>
    /\ detected = <<>>

\* babylonify --input a.parquet --output B.PARQUET ...
InitFile ==
    /\ pc = "main"
    /\ cli \in Clis(Some(InFile), None, OutFile, ThreadOptions)
    /\ \E i \in {Absent, CorruptFile} \cup {ParquetFile(t) : t \in Tables},
          o \in {Absent, Directory} :
          fs = (InFile :> i) @@ (OutFile :> o)
    /\ Idle
    /\ text = <<>>
    /\ cleaned = <<>>

\* babylonify --input-dir in --output out ...
InitDirectory ==
    /\ pc = "main"
    /\ cli \in Clis(None, Some(InDir), OutDir, {None, Some(1)})
    /\ \E d \in {Absent, Directory},
          o \in {Absent, Directory, CorruptFile},
          entries \in [Names -> UNION {EntryOptions(n) : n \in Names}],
          blocked \in SUBSET {NameC} :
          /\ \A n \in Names : entries[n] \in EntryOptions(n)
          /\ d = Absent => \A n \in Names : entries[n] = Absent
          /\ o # Directory => blocked = {}
          /\ fs = [p \in {InDir, OutDir} \cup {join(InDir, n) : n \in Names}
                         \cup {join(OutDir, n) : n \in Names} |->
                     IF p = InDir THEN d
                     ELSE IF p = OutDir THEN o
                     ELSE IF parent(p) = InDir THEN entries[file_name(p)]
                     ELSE IF file_name(p) \in blocked THEN Directory
                     ELSE Absent]
    /\ Idle
    /\ text = <<>>
    /\ cleaned = <<>>

(***************************************************************************)
(* main                                                                    *)
(***************************************************************************)
\* Returning Err from main, from wherever the ? operators propagate it.
Fail(e) ==
    /\ result' = Err(e)
    /\ pc' = "done"

PoolBuildError == Error("ThreadPoolBuildError", <<>>)

\* A main that propagates the error of build_global with ?.
PoolErrorWithQuestionMark(threads, built) ==
    IF threads # None /\ ~built THEN Some(PoolBuildError) ELSE None

\* Lines 114-119: what main returns early with after configuring the pool.
\* .build_global().ok() turns the Result into an Option that is dropped.
PropagatedPoolError(threads, built) == None

Main ==
    /\ pc = "main"
    /\ \E built \in BOOLEAN :
          /\ cli.threads = None => built
          /\ pool' = IF cli.threads # None /\ built THEN cli.threads[1]
                     ELSE DefaultThreads
          /\ LET failed == cli.threads # None /\ ~built
                 e == PoolBuildError
                 propagated == PropagatedPoolError(cli.threads, built)
                 lang == parse_language(cli.lang)
             IN  IF propagated # None
                 THEN /\ Fail(propagated[1])
                      /\ UNCHANGED <<discarded, target_lang, input_path, output_path>>
                 ELSE /\ discarded' = IF failed THEN discarded \cup {e} ELSE discarded
                      /\ IF lang = None
                         THEN /\ Fail(Error("Unknown language", <<TrimLowercase(cli.lang)>>))
                              /\ UNCHANGED <<target_lang, input_path, output_path>>
                         ELSE /\ target_lang' = lang[1]
                              /\ result' = result
                              /\ IF cli.input # None
                                 THEN /\ pc' = "process_file"
                                      /\ input_path' = cli.input[1]
                                      /\ output_path' = cli.output
                                 ELSE /\ pc' = "process_directory"
                                      /\ UNCHANGED <<input_path, output_path>>
    /\ UNCHANGED <<cli, fs, io, files, cursor, detected>>
    /\ UNCHANGED fileVars
    /\ UNCHANGED cleanVars

(***************************************************************************)
(* process_directory                                                       *)
(***************************************************************************)
\* Most directory entries whose reading fails in one scan.
MaxEntryErrors == 1

EntryError(path) == Error("DirEntryError", path)

\* A scan that lists the matches in the order read_dir gave them.
ListedUnsorted(fs_, dir, unreadable) ==
    ReverseSorted({p \in DOMAIN fs_ :
        /\ Len(p) = Len(dir) + 1 /\ parent(p) = dir /\ exists(fs_, p)
        /\ p \notin unreadable
        /\ IsParquetFile(fs_, p)})

\* Lines 160-179: the entries of dir that were read (entry.ok()? and
\* file_type().ok()? skip the others), are files and end in .parquet, sorted.
Listed(fs_, dir, unreadable) ==
    Sorted({p \in DOMAIN fs_ :
        /\ Len(p) = Len(dir) + 1 /\ parent(p) = dir /\ exists(fs_, p)
        /\ p \notin unreadable
        /\ IsParquetFile(fs_, p)})

\* Lines 144-186, up to the loop.
ScanDirectory ==
    /\ pc = "process_directory"
    /\ LET input_dir == cli.input_dir[1]
           output_dir == cli.output
           entries == {p \in DOMAIN fs : Len(p) = Len(input_dir) + 1
                                         /\ parent(p) = input_dir /\ exists(fs, p)}
       IN  \E created \in BOOLEAN, unreadable \in SUBSET entries :
             /\ Cardinality(unreadable) <= MaxEntryErrors
             /\ exists(fs, output_dir) => created
             /\ IF exists(fs, output_dir) /\ ~is_dir(fs, output_dir)
                THEN /\ Fail(Error("Output path must be a directory", output_dir))
                     /\ unreadable = {}
                     /\ UNCHANGED <<fs, io, discarded, files>>
                ELSE IF ~exists(fs, output_dir) /\ ~created
                THEN /\ Fail(Error("Failed to create output directory", output_dir))
                     /\ unreadable = {}
                     /\ io' = Append(io, IoEvent("create_dir_all", output_dir))
                     /\ UNCHANGED <<fs, discarded, files>>
                ELSE /\ fs' = [fs EXCEPT ![output_dir] = Directory]
                     /\ io' = (IF exists(fs, output_dir) THEN io
                               ELSE Append(io, IoEvent("create_dir_all", output_dir)))
                              \o <<IoEvent("read_dir", input_dir)>>
                     /\ IF ~is_dir(fs, input_dir)
                        THEN /\ Fail(Error("Failed to read input directory", input_dir))
                             /\ unreadable = {}
                             /\ UNCHANGED <<discarded, files>>
                        ELSE /\ discarded' = discarded \cup {EntryError(p) : p \in unreadable}
                             /\ files' = Listed(fs, input_dir, unreadable)
                             /\ IF files' = <<>>
                                THEN Fail(Error("No Parquet files found in input directory",
                                                input_dir))
                                ELSE pc' = "for_files" /\ result' = result
    /\ UNCHANGED <<cli, pool, target_lang, cursor, input_path, output_path, detected>>
    /\ UNCHANGED fileVars
    /\ UNCHANGED cleanVars

\* Lines 188-196: the head of the loop, and Ok(()) after the last file.
ForEachFile ==
    /\ pc = "for_files"
    /\ IF cursor = Len(files)
       THEN /\ result' = Ok
            /\ pc' = "done"
            /\ UNCHANGED <<cursor, input_path, output_path>>
       ELSE /\ cursor' = cursor + 1
            /\ input_path' = files[cursor + 1]
            /\ output_path' = join(cli.output, file_name(files[cursor + 1]))
            /\ pc' = "process_file"
            /\ result' = result
    /\ UNCHANGED <<cli, fs, io, discarded, pool, target_lang, files, detected>>
    /\ UNCHANGED fileVars
    /\ UNCHANGED cleanVars

(***************************************************************************)
(* process_file                                                            *)
(***************************************************************************)
\* A process_file without the check of the output path.
OutputNotChecked(fs_, path) == FALSE

\* Lines 206-211: the check that returns before anything is opened.
OutputIsDirectory(fs_, path) == exists(fs_, path) /\ is_dir(fs_, path)

\* Lines 206-237: the output check, reading the table, extracting the
\* column and cleaning it.
ProcessFileBegin ==
    /\ pc = "process_file"
    /\ LET file == fs[input_path]
           opened == IoEvent("open", input_path)
           read == IoEvent("read", input_path)
       IN  IF OutputIsDirectory(fs, output_path)
           THEN /\ Fail(Error("Output path points to a directory", output_path))
                /\ UNCHANGED <<io, df, processed, mask, busy, calls>>
           ELSE IF ~is_file(fs, input_path)
           THEN /\ Fail(Error("io::Error", <<>>))
                /\ io' = Append(io, opened)
                /\ UNCHANGED <<df, processed, mask, busy, calls>>
           ELSE IF ~file.valid
           THEN /\ Fail(Error("PolarsError", <<>>))
                /\ io' = io \o <<opened, read>>
                /\ UNCHANGED <<df, processed, mask, busy, calls>>
           ELSE IF cli.column \notin DOMAIN file.df
           THEN /\ Fail(Error("Column not found", <<cli.column>>))
                /\ io' = io \o <<opened, read>>
                /\ UNCHANGED <<df, processed, mask, busy, calls>>
           ELSE IF file.df[cli.column].dtype # "String"
           THEN /\ Fail(Error("Target column is not String", <<>>))
                /\ io' = io \o <<opened, read>>
                /\ UNCHANGED <<df, processed, mask, busy, calls>>
           ELSE /\ io' = io \o <<opened, read>>
                /\ df' = file.df
                /\ processed' = Processed(file.df[cli.column].values, cli.clean)
                /\ mask' = [i \in 1..height(file.df) |-> None]
                /\ busy' = {}
                /\ calls' = [i \in 1..height(file.df) |-> 0]
                /\ pc' = "classify"
                /\ result' = result
    /\ UNCHANGED <<cli, fs, discarded, pool, target_lang, files, cursor,
                   input_path, output_path, detected>>
    /\ UNCHANGED cleanVars

\* An idle worker of the pool takes a row that no worker has taken.
StartRow(i) ==
    /\ pc = "classify"
    /\ Cardinality(busy) < pool
    /\ mask[i] = None
    /\ i \notin busy
    /\ busy' = busy \cup {i}
    /\ UNCHANGED <<cli, fs, pc, result, io, discarded, pool, target_lang, files,
                   cursor, input_path, output_path, df, processed, mask, calls,
                   detected>>
    /\ UNCHANGED cleanVars

\* Lines 241-245 for the row a worker holds, and the write of collect().
\* The detector is deterministic: a text it has answered gets the same answer.
CompleteRow(i) ==
    /\ pc = "classify"
    /\ i \in busy
    /\ LET opt_text == processed[i]
       IN  IF CallsDetector(opt_text)
           THEN \E r \in DetectionResults :
                  /\ opt_text[1] \in DOMAIN detected => r = detected[opt_text[1]]
                  /\ detected' = (opt_text[1] :> r) @@ detected
                  /\ calls' = [calls EXCEPT ![i] = @ + 1]
                  /\ mask' = Gather(mask, i,
                                Decision(opt_text, cli.keep_empty, r, target_lang))
           ELSE /\ mask' = Gather(mask, i,
                              Decision(opt_text, cli.keep_empty, None, target_lang))
                /\ UNCHANGED <<calls, detected>>
    /\ busy' = busy \ {i}
    /\ UNCHANGED <<cli, fs, pc, result, io, discarded, pool, target_lang, files,
                   cursor, input_path, output_path, df, processed>>
    /\ UNCHANGED cleanVars

Gathered == \A i \in DOMAIN mask : mask[i] # None

\* The Vec<bool> that collect() returns.
MaskVec == [i \in DOMAIN mask |-> mask[i][1]]

\* Lines 249-260: the table that is written.  None when polars returns Err.
Output(frame, values, m, column, clean) ==
    IF Len(m) # height(frame) THEN None
    ELSE IF clean
         THEN with_column(Filter(frame, m), column, CleanedFiltered(values, m))
         ELSE Some(Filter(frame, m))

\* Lines 249-279, after the parallel map has joined.
FinishFile ==
    /\ pc = "classify"
    /\ Gathered
    /\ LET out == Output(df, processed, MaskVec, cli.column, cli.clean)
           create == IoEvent("create", output_path)
           write == IoEvent("write", output_path)
       IN  IF out = None
           THEN /\ Fail(Error("PolarsError", <<>>))
                /\ UNCHANGED <<fs, io>>
           ELSE \E outcome \in {"create fails", "write fails", "written"} :
                  \* File::create fails on a directory, and may fail otherwise.
                  /\ is_dir(fs, output_path) => outcome = "create fails"
                  /\ IF outcome = "create fails"
                     THEN /\ Fail(Error("Cannot create", output_path))
                          /\ io' = Append(io, create)
                          /\ fs' = fs
                     ELSE IF outcome = "write fails"
                     THEN /\ Fail(Error("PolarsError", <<>>))
                          /\ io' = io \o <<create, write>>
                          /\ fs' = [fs EXCEPT ![output_path] = CorruptFile]
                     ELSE /\ io' = io \o <<create, write>>
                          /\ fs' = [fs EXCEPT ![output_path] = ParquetFile(out[1])]
                          /\ IF cli.input # None
                             THEN result' = Ok /\ pc' = "done"
                             ELSE result' = result /\ pc' = "for_files"
    /\ UNCHANGED <<cli, discarded, pool, target_lang, files, cursor, input_path,
                   output_path, detected>>
    /\ UNCHANGED fileVars
    /\ UNCHANGED cleanVars

(***************************************************************************)
(* Specifications.                                                         *)
(***************************************************************************)
Classify ==
    \/ \E i \in DOMAIN mask : StartRow(i)
    \/ \E i \in DOMAIN mask : CompleteRow(i)

Init == InitFile

Next == Main \/ ProcessFileBegin \/ Classify \/ FinishFile

(***************************************************************************)
(* clean_text on its own: every String over Chars up to MaxLen, cleaned    *)
(* once and then again.                                                    *)
(***************************************************************************)
InitClean ==
    /\ pc = "clean_text"
    /\ text \in StringsUpTo(MaxLen)
    /\ cleaned = <<>>
    /\ cli = [input |-> None, input_dir |-> None, output |-> <<>>,
              column |-> "transcription", lang |-> "UKR", threads |-> None,
              keep_empty |-> FALSE, clean |-> TRUE]
    /\ fs = <<>>
    /\ Idle

ApplyClean ==
    /\ pc = "clean_text"
    /\ Len(cleaned) < 2
    /\ cleaned' = Append(cleaned,
                     clean_text(IF cleaned = <<>> THEN text ELSE cleaned[Len(cleaned)]))
    /\ UNCHANGED <<cli, fs, pc, result, io, discarded, pool, target_lang, files,
                   cursor, input_path, output_path, detected, text>>
    /\ UNCHANGED fileVars

NextClean == ApplyClean

\* clean_text applied to arbitrary input.
SpecClean == InitClean /\ [][NextClean]_vars

\* A run on one file.
Spec == Init /\ [][Next]_vars

NextDirectory == Next \/ ScanDirectory \/ ForEachFile

\* A run on a directory.
SpecDirectory == InitDirectory /\ [][NextDirectory]_vars

(***************************************************************************)
(* Properties.                                                             *)
(***************************************************************************)
\* process_file returned Ok(()) for the one input file.
FileDone == pc = "done" /\ result = Ok /\ cli.input # None

\* The table on disk at the output path.
Written == fs[output_path].df

\* The rows of the input whose mask entry is true.
Kept == {i \in DOMAIN mask : mask[i] = Some(TRUE)}

\* The input row that is the k-th survivor.
SurvivorIndex(k) == CHOOSE i \in Kept : Cardinality({j \in Kept : j <= i}) = k

\* The cell of input row i in the text column, and the text that is classified.
Cell(i) == df[cli.column].values[i]
ClassifiedText(i) == IF cli.clean THEN clean_text(Cell(i)[1]) ELSE Cell(i)[1]

RECURSIVE SumSeq(_)
SumSeq(q) == IF q = <<>> THEN 0 ELSE Head(q) + SumSeq(Tail(q))

\* C1: every mask entry that has been computed is keep_empty for a null
\* cell, keep_empty for a cell whose text (cleaned under --clean, raw
\* otherwise) is empty, and otherwise true exactly when the detector's
\* answer for that text is the target language; an undetermined answer
\* drops the row.
C1_MaskEntries ==
    \A i \in DOMAIN mask :
        mask[i] # None =>
            mask[i][1] =
                IF Cell(i) = None THEN cli.keep_empty
                ELSE IF ClassifiedText(i) = <<>> THEN cli.keep_empty
                ELSE /\ ClassifiedText(i) \in DOMAIN detected
                     /\ detected[ClassifiedText(i)] = Some(target_lang)

C1_Witness ==
    /\ FileDone
    /\ cli.clean
    /\ \E i, j, k \in DOMAIN mask :
          /\ Cell(i) = None
          /\ Cell(j) = Some(<<"1">>)
          /\ Cell(k) # None /\ ClassifiedText(k) # <<>>
          /\ detected[ClassifiedText(k)] = None
          /\ mask[k] = Some(FALSE)

\* C2: the table written has exactly the input rows whose mask entry is
\* true, in their input order: every column has as many values as the mask
\* has true entries, the ids written are the ids of the kept rows, and they
\* ascend as they do in the input.
C2_OutputRows ==
    FileDone =>
        /\ fs[output_path].kind = "file" /\ fs[output_path].valid
        /\ \A c \in DOMAIN Written : Len(Written[c].values) = Cardinality(Kept)
        /\ {Written["id"].values[k] : k \in 1..height(Written)}
             = {df["id"].values[i] : i \in Kept}
        /\ \A k \in 1..(height(Written) - 1) :
              Written["id"].values[k] < Written["id"].values[k + 1]

C2_Witness ==
    /\ FileDone
    /\ Len(mask) >= 3
    /\ mask[1] = Some(TRUE) /\ mask[2] = Some(FALSE) /\ mask[3] = Some(TRUE)

\* C3: under --clean the text column written holds, for the k-th surviving
\* row, the value clean_text gave for that input row before masking (the
\* entry of `processed`), and a surviving null cell is written as null.
C3_CleanedColumn ==
    FileDone /\ cli.clean =>
        \A k \in 1..height(Written) :
            /\ Written[cli.column].values[k] = processed[SurvivorIndex(k)]
            /\ Written[cli.column].values[k] =
                  IF Cell(SurvivorIndex(k)) = None THEN None
                  ELSE Some(clean_text(Cell(SurvivorIndex(k))[1]))

C3_Witness ==
    /\ FileDone
    /\ cli.clean
    /\ \E k, l \in 1..height(Written) :
          /\ Cell(SurvivorIndex(k)) = None
          /\ Written[cli.column].values[k] = None
          /\ Cell(SurvivorIndex(l)) # None
          /\ Written[cli.column].values[l] # Cell(SurvivorIndex(l))
          /\ Written[cli.column].values[l] # Some(<<>>)
          /\ l < k

\* C4: the table written has the columns of the input, and every column
\* other than the text column (and the text column too without --clean)
\* holds for the k-th surviving row the input's value of that row.
C4_OtherColumns ==
    FileDone =>
        /\ DOMAIN Written = DOMAIN df
        /\ \A c \in DOMAIN df :
              (c # cli.column \/ ~cli.clean) =>
                  /\ Written[c].dtype = df[c].dtype
                  /\ Written[c].values =
                        [k \in 1..Cardinality(Kept) |-> df[c].values[SurvivorIndex(k)]]

C4_Witness ==
    /\ FileDone
    /\ Kept # {} /\ Kept # DOMAIN mask
    /\ 1 \notin Kept
    /\ ~cli.clean
    /\ \E i \in Kept : Cell(i) # None /\ clean_text(Cell(i)[1]) # Cell(i)[1]

\* C6: in single-file mode with the output path an existing directory,
\* nothing is ever opened, read, created or written, and process_file
\* returns the error about the output path.
C6_OutputDirectoryFailsFirst ==
    cli.input # None /\ is_dir(fs, cli.output) =>
        /\ io = <<>>
        /\ pc # "classify"
        /\ pc = "done" /\ target_lang # "" =>
              result = Err(Error("Output path points to a directory", cli.output))

C6_Witness ==
    /\ pc = "done"
    /\ cli.input # None
    /\ is_dir(fs, cli.output)
    /\ fs[cli.input[1]].kind = "file" /\ fs[cli.input[1]].valid
    /\ result = Err(Error("Output path points to a directory", cli.output))

\* C9: the detector is called once for a row whose text is present and not
\* empty (cleaned under --clean, raw otherwise) and never for another row,
\* so that when the mask is complete the number of calls is the number of
\* such rows.
C9_DetectorCalls ==
    LET needed == {i \in DOMAIN calls : Cell(i) # None /\ ClassifiedText(i) # <<>>}
    IN  /\ \A i \in DOMAIN calls :
            /\ i \notin needed => calls[i] = 0
            /\ calls[i] <= 1
            /\ mask[i] # None /\ i \in needed => calls[i] = 1
        /\ Gathered => SumSeq(calls) = Cardinality(needed)

C9_Witness ==
    /\ pc = "classify"
    /\ Gathered
    /\ cli.clean
    /\ \E i, j, k \in DOMAIN calls :
          /\ Cell(i) = None
          /\ Cell(j) = Some(<<"1">>)
          /\ calls[k] = 1

\* The detector's answer for a cell, from the answers it has given.
Answer(opt_text) ==
    IF opt_text # None /\ opt_text[1] \in DOMAIN detected
    THEN detected[opt_text[1]] ELSE None

\* The mask a single thread computes row by row.
SequentialMask ==
    [i \in DOMAIN processed |->
        Decision(processed[i], cli.keep_empty, Answer(processed[i]), target_lang)]

\* C10: the gathered mask is as long as the table is high and its entry i is
\* the decision for row i, whichever worker computed it and in whatever
\* order; the table written is the one the row-by-row mask gives.
C10_ScheduleIndependent ==
    /\ Len(mask) = height(df)
    /\ \A i \in DOMAIN mask : mask[i] # None => mask[i][1] = SequentialMask[i]
    /\ FileDone =>
          Some(Written) = Output(df, processed, SequentialMask, cli.column, cli.clean)

\* A row finished before an earlier row that another worker still holds, and
\* the two rows get different decisions.
C10_Witness ==
    /\ pc = "classify"
    /\ pool >= 2
    /\ Len(mask) >= 2
    /\ mask[1] = None /\ processed[1] = None
    /\ 1 \in busy
    /\ mask[2] # None /\ mask[2] # Some(cli.keep_empty)

\* The output path of the j-th listed file.
OutputOf(j) == join(cli.output, file_name(files[j]))

\* The paths of the input files opened so far, in order.
Opened == SelectSeq(io, LAMBDA e : e.op = "open")

\* C5: in directory mode the matches are taken in sorted path order, one at
\* a time; every file taken before the current one has its output on disk,
\* and no file after the current one has been opened or has an output.  As
\* a failure ends the run at the current file, the files before the failing
\* one keep their outputs and the files after it are never touched.
C5_SortedAbortOnFirstFailure ==
    cli.input_dir # None =>
        /\ \A j \in 1..(Len(files) - 1) : PathLess(files[j], files[j + 1])
        /\ files # <<>> =>
              {files[j] : j \in 1..Len(files)} =
                 {p \in DOMAIN fs : /\ Len(p) = 2 /\ parent(p) = cli.input_dir[1]
                                    /\ IsParquetFile(fs, p)
                                    /\ EntryError(p) \notin discarded}
        /\ cursor <= Len(files)
        /\ \/ [j \in 1..Len(Opened) |-> Opened[j].path] = SubSeq(files, 1, cursor)
           \/ [j \in 1..Len(Opened) |-> Opened[j].path] = SubSeq(files, 1, cursor - 1)
        /\ \A j \in 1..(cursor - 1) :
              fs[OutputOf(j)].kind = "file" /\ fs[OutputOf(j)].valid
        /\ \A j \in (cursor + 1)..Len(files) :
              /\ fs[OutputOf(j)].kind # "file"
              /\ \A k \in 1..Len(io) : io[k].path \notin {files[j], OutputOf(j)}
        /\ result.state = "failed" => pc = "done"

\* The second of three files failed.
C5_Witness ==
    /\ cli.input_dir # None
    /\ pc = "done"
    /\ result.state = "failed"
    /\ Len(files) = 3
    /\ cursor = 2
    /\ fs[OutputOf(1)].valid
    /\ fs[OutputOf(3)].kind = "absent"

\* The errors whose message the program formats the offender into.
NamingKinds ==
    {"Unknown language", "Output path must be a directory",
     "Failed to create output directory", "Failed to read input directory",
     "No Parquet files found in input directory",
     "Output path points to a directory", "Column not found", "Cannot create"}

\* The errors that .ok() drops.
DroppedKinds == {"ThreadPoolBuildError", "DirEntryError"}

\* C7 as stated: no error is dropped, and every failure names its offender.
C7_EveryErrorSurfaces ==
    /\ discarded = {}
    /\ result.state = "failed" => result.error.names # <<>>

\* C7, amended: the only errors that are dropped are a failure to configure
\* the worker pool and a failure to read a directory entry or its type, and
\* neither fails the run; every failure names the offending path, column or
\* value exactly when it is one of the errors the program words itself; and
\* a run that ends Ok has written a readable output for every listed file.
C7_ErrorsSurfaceExceptDropped ==
    /\ \A e \in discarded : e.kind \in DroppedKinds
    /\ result.state = "failed" =>
          /\ pc = "done"
          /\ result.error.kind \notin DroppedKinds
          /\ result.error.names # <<>> <=> result.error.kind \in NamingKinds
    /\ result = Ok /\ cli.input_dir # None =>
          /\ files # <<>> /\ cursor = Len(files)
          /\ \A j \in 1..Len(files) :
                fs[OutputOf(j)].kind = "file" /\ fs[OutputOf(j)].valid

\* A run that ended Ok after both kinds of error were dropped.
C7_Witness ==
    /\ pc = "done"
    /\ result = Ok
    /\ PoolBuildError \in discarded
    /\ \E e \in discarded : e.kind = "DirEntryError"

\* No two consecutive spaces.
SingleSpaced(s) == \A i \in 1..(Len(s) - 1) : ~(s[i] = " " /\ s[i + 1] = " ")

\* C8 as stated: clean_text is idempotent on every input that has no run of
\* two or more spaces.
C8_IdempotentOnSingleSpacedInput ==
    Len(cleaned) = 2 /\ SingleSpaced(text) => cleaned[2] = cleaned[1]

\* C8, amended: clean_text is idempotent on every input whose cleaned text
\* has no run of two or more spaces.
C8_IdempotentOnSingleSpacedOutput ==
    Len(cleaned) = 2 /\ SingleSpaced(cleaned[1]) => cleaned[2] = cleaned[1]

\* An input that cleaning changes into a text with a space inside.
C8_Witness ==
    /\ Len(cleaned) = 2
    /\ SingleSpaced(cleaned[1])
    /\ cleaned[1] # text
    /\ \E i \in 1..Len(cleaned[1]) : cleaned[1][i] = " "
    /\ ~SingleSpaced(text)

=============================================================================
